---- MODULE Spec2Model ----
(***************************************************************************)
(* A model of the crawl engine of scrappy-do: Web::crawl (src/spider.rs),  *)
(* PendingCallback::run (src/spider.rs), Callback::run (src/callback.rs)   *)
(* and the handler tasks produced by the handle macro                      *)
(* (scrappy_do-codegen/src/lib.rs).                                        *)
(*                                                                         *)
(* A callback is named by its path in the invocation forest: the seed is   *)
(* <<>> and the follow-up yielded as the i-th outcome of callback p is     *)
(* Append(p, i).  An item is named <<p, i>>: the i-th outcome of p.        *)
(***************************************************************************)
EXTENDS Integers, Sequences, FiniteSets, TLC

\* Largest concurrency limit explored (WebBuilder::concurrent_requests).
MaxConcurrent == 2

\* Largest task-queue capacity explored (entries of the bounded channel).
MaxQueueSize == 2

\* Largest task-queue byte budget a builder call sets
\* (WebBuilder::task_queue_size_bytes).
MaxQueueSizeBytes == 4

\* Largest std::mem::size_of::<PendingCallback<I, C>>() explored; the size
\* depends on the item and context types of the crawl.
MaxEntrySize == 3

\* NonZeroUsize::new(20): the concurrency limit of a builder that set none.
DefaultConcurrentRequests == 20

\* NonZeroUsize::new(10_000_000): the byte budget of a builder that set none.
DefaultTaskQueueSizeBytes == 10000000

\* Longest sequence of elements a selection yields (util.rs).
MaxSelect == 3

\* Most form elements in a page body given to a FormBuilder (util.rs).
MaxForms == 2

VARIABLES
    form_builder,         \* a FormBuilder of util.rs and what its build gave
    parse,                \* a call of the parse helpers of util.rs
    builder,              \* the Option fields of the WebBuilder
    task_queue_size_bytes,\* Web.task_queue_size_bytes
    entry_size,           \* std::mem::size_of::<PendingCallback<I, C>>()
    concurrent_requests,  \* Web.concurrent_requests
    task_queue_size,      \* capacity of channel(task_queue_size)
    start,                \* handler of the seed callback, Web.start
    crawl_pc,             \* position of Web::crawl
    task_queue,           \* buffered PendingCallbacks of the task channel
    task_senders,         \* live Sender<PendingCallback> handles
    item_queue,           \* buffered items of the unbounded item channel
    item_senders,         \* live UnboundedSender<I> handles
    item_reciever,        \* "none", "open", "dropped"
    manager,              \* position of the manager task
    in_progress_queue,    \* JoinHandles held by buffer_unordered
    tasks,                \* the spawned executions, by callback
    delivered,            \* items the consumer got from the stream
    stream_ended          \* the consumer got end-of-stream

vars == <<form_builder, parse, builder, task_queue_size_bytes, entry_size,
          concurrent_requests, task_queue_size, start, crawl_pc, task_queue,
          task_senders, item_queue, item_senders, item_reciever, manager,
          in_progress_queue, tasks, delivered, stream_ended>>

config == <<form_builder, parse, builder, task_queue_size_bytes, entry_size,
            concurrent_requests, task_queue_size, start>>

----------------------------------------------------------------------------
(* Handlers.  A handler is the sequence of outcomes its body yields.       *)

Item == [tag |-> "Item", handler |-> "none"]

Follow(h) == [tag |-> "Callback", handler |-> h]

\* The handlers of the crate documentation, the example and the scenarios.
Handlers == {"item", "chain", "ab", "two", "fan3", "quotes"}

Script(h) ==
    CASE h = "item"   -> <<Item>>
      [] h = "chain"  -> <<Follow("item"), Item>>
      [] h = "ab"     -> <<Item, Follow("item")>>
      [] h = "two"    -> <<Follow("item"), Follow("item")>>
      [] h = "fan3"   -> <<Follow("item"), Follow("item"), Follow("item")>>
      [] h = "quotes" -> <<Follow("chain"), Item, Item>>
      [] h = "loop"   -> <<Follow("loop")>>

Range(s) == {s[i] : i \in DOMAIN s}

Front(s) == SubSeq(s, 1, Len(s) - 1)

Last(s) == s[Len(s)]

Paths == UNION {[1..n -> 1..3] : n \in 0..3}

\* The handler of the follow-up that is outcome i of a callback with handler
\* p, "none" when that outcome is no follow-up.
FollowUpHandler[p \in Handlers \cup {"loop", "none"}, i \in 1..3] ==
    IF p # "none" /\ i \in 1..Len(Script(p))
    THEN Script(p)[i].handler
    ELSE "none"

\* The handler of the callback reached from a seed with handler h along
\* path c, "none" when there is no such callback.
HandlerAt[h \in Handlers \cup {"loop"}, c \in Paths] ==
    IF c = <<>> THEN h
    ELSE FollowUpHandler[HandlerAt[h, Front(c)], Last(c)]

HandlerFrom(h, c) == HandlerAt[h, c]

\* The handler bound to callback c in this crawl.
HandlerOf(c) == HandlerFrom(start, c)

Outcomes(c) == Script(HandlerOf(c))

\* Every callback some crawl can create.
Callbacks ==
    {c \in Paths : \E h \in Handlers \cup {"loop"} : HandlerFrom(h, c) # "none"}

----------------------------------------------------------------------------
(* Web::crawl                                                              *)

\* No FormBuilder is in use.
NoForm == [pc |-> "idle"]

\* No call of a parse helper is under way.
NoParse == [pc |-> "idle"]

\* The WebBuilder whose build() gives a Web of handler h, concurrency limit n
\* and byte budget b.  An unset Option is "none" (handler), FALSE (start,
\* context) or 0 (the NonZeroUsize fields).
Built(h, n, b) ==
    [start |-> TRUE, handler |-> h, context |-> TRUE,
     concurrent_requests |-> n, task_queue_size_bytes |-> b]

\* The crawl's state once build() and the capacity computation of crawl()
\* are done: the byte budget is a whole number of entries.
Init ==
    /\ concurrent_requests \in 1..MaxConcurrent
    /\ task_queue_size \in 1..MaxQueueSize
    /\ start \in Handlers
    /\ entry_size = MaxEntrySize
    /\ parse = NoParse
    /\ form_builder = NoForm
    /\ task_queue_size_bytes = task_queue_size * entry_size
    /\ builder = Built(start, concurrent_requests, task_queue_size_bytes)
    /\ crawl_pc = "channels"
    /\ task_queue = <<>>
    /\ task_senders = 0
    /\ item_queue = <<>>
    /\ item_senders = 0
    /\ item_reciever = "none"
    /\ manager = "none"
    /\ in_progress_queue = {}
    /\ tasks = <<>>
    /\ delivered = <<>>
    /\ stream_ended = FALSE

\* Both channels are created and pending_start takes the item sender and a
\* clone of the task sender.
CrawlChannels ==
    /\ crawl_pc = "channels"
    /\ task_queue_size > 0
    /\ crawl_pc' = "seed"
    /\ task_senders' = 2
    /\ item_senders' = 1
    /\ item_reciever' = "open"
    /\ UNCHANGED <<config, task_queue, item_queue, manager, in_progress_queue,
                   tasks, delivered, stream_ended>>

\* task_sender.send(pending_start).await
CrawlSendStart ==
    /\ crawl_pc = "seed"
    /\ Len(task_queue) < task_queue_size
    /\ task_queue' = Append(task_queue, <<>>)
    /\ crawl_pc' = "spawn"
    /\ UNCHANGED <<config, task_senders, item_queue, item_senders,
                   item_reciever, manager, in_progress_queue, tasks,
                   delivered, stream_ended>>

\* spawn(async move { ... }) of the manager task
CrawlSpawnManager ==
    /\ crawl_pc = "spawn"
    /\ crawl_pc' = "return"
    /\ manager' = "running"
    /\ UNCHANGED <<config, task_queue, task_senders, item_queue, item_senders,
                   item_reciever, in_progress_queue, tasks, delivered,
                   stream_ended>>

\* CrawlReturn as it would be if the returned stream kept crawl's own
\* task_sender alive.
CrawlReturnKeepsSender ==
    /\ crawl_pc = "return"
    /\ crawl_pc' = "returned"
    /\ UNCHANGED <<config, task_queue, task_senders, item_queue,
                   item_senders, item_reciever, manager, in_progress_queue,
                   tasks, delivered, stream_ended>>

\* crawl returns the item stream; its own task_sender goes out of scope.
CrawlReturn ==
    /\ crawl_pc = "return"
    /\ crawl_pc' = "returned"
    /\ task_senders' = task_senders - 1
    /\ UNCHANGED <<config, task_queue, item_queue, item_senders,
                   item_reciever, manager, in_progress_queue, tasks,
                   delivered, stream_ended>>

----------------------------------------------------------------------------
(* The manager task: task_stream.buffer_unordered(concurrent_requests)     *)

\* The execution spawned for a dequeued callback, about to run Callback::run.
Spawned ==
    [pc |-> "fetch", taken |-> 0, pending |-> 0, result |-> "none",
     hst |-> "none", hsent |-> 0, chan |-> <<>>]

InFlight == {c \in DOMAIN tasks : tasks[c].pc # "done"}

\* Dequeue as it would be if the manager spawned every queued callback at
\* once (for_each over task_stream without buffer_unordered).
DequeueUnbuffered ==
    /\ manager = "running"
    /\ task_queue # <<>>
    /\ LET c == Head(task_queue)
       IN  /\ task_queue' = Tail(task_queue)
           /\ in_progress_queue' = in_progress_queue \cup {c}
           /\ tasks' = (c :> Spawned) @@ tasks
    /\ UNCHANGED <<config, crawl_pc, task_senders, item_queue, item_senders,
                   item_reciever, manager, delivered, stream_ended>>

\* Dequeue as it would be if the manager peeked at the queue: the callback
\* is started and stays queued.
DequeueKeeps ==
    /\ manager = "running"
    /\ Cardinality(in_progress_queue) < concurrent_requests
    /\ task_queue # <<>>
    /\ LET c == Head(task_queue)
       IN  /\ in_progress_queue' = in_progress_queue \cup {c}
           /\ tasks' = (c :> Spawned) @@ tasks
    /\ UNCHANGED <<config, crawl_pc, task_queue, task_senders, item_queue,
                   item_senders, item_reciever, manager, delivered,
                   stream_ended>>

\* Dequeue as it would be over a stack: the callback queued last is started.
DequeueNewest ==
    /\ manager = "running"
    /\ Cardinality(in_progress_queue) < concurrent_requests
    /\ task_queue # <<>>
    /\ LET c == Last(task_queue)
       IN  /\ task_queue' = Front(task_queue)
           /\ in_progress_queue' = in_progress_queue \cup {c}
           /\ tasks' = (c :> Spawned) @@ tasks
    /\ UNCHANGED <<config, crawl_pc, task_senders, item_queue, item_senders,
                   item_reciever, manager, delivered, stream_ended>>

\* buffer_unordered polls task_stream only while it holds fewer than
\* concurrent_requests join handles; task_reciever.recv() yields the head of
\* the queue and the stream spawns its execution.
Dequeue ==
    /\ manager = "running"
    /\ Cardinality(in_progress_queue) < concurrent_requests
    /\ task_queue # <<>>
    /\ LET c == Head(task_queue)
       IN  /\ task_queue' = Tail(task_queue)
           /\ in_progress_queue' = in_progress_queue \cup {c}
           /\ tasks' = (c :> Spawned) @@ tasks
    /\ UNCHANGED <<config, crawl_pc, task_senders, item_queue, item_senders,
                   item_reciever, manager, delivered, stream_ended>>

\* StreamEnd as it would be if task_stream looped on try_recv: the loop ends
\* as soon as the queue is found empty.
StreamEndTryRecv ==
    /\ manager = "running"
    /\ Cardinality(in_progress_queue) < concurrent_requests
    /\ task_queue = <<>>
    /\ manager' = "draining"
    /\ UNCHANGED <<config, crawl_pc, task_queue, task_senders, item_queue,
                   item_senders, item_reciever, in_progress_queue, tasks,
                   delivered, stream_ended>>

\* task_reciever.recv() yields None: the queue is empty and every sender is
\* dropped; the while-let loop of task_stream ends.
StreamEnd ==
    /\ manager = "running"
    /\ Cardinality(in_progress_queue) < concurrent_requests
    /\ task_queue = <<>>
    /\ task_senders = 0
    /\ manager' = "draining"
    /\ UNCHANGED <<config, crawl_pc, task_queue, task_senders, item_queue,
                   item_senders, item_reciever, in_progress_queue, tasks,
                   delivered, stream_ended>>

\* Join as it would be if for_each unwrapped the join result: a panicked
\* execution ends the manager task.
JoinUnwrap(c) ==
    /\ manager \in {"running", "draining"}
    /\ c \in in_progress_queue
    /\ tasks[c].pc = "done"
    /\ in_progress_queue' = in_progress_queue \ {c}
    /\ manager' = IF tasks[c].result = "Panic" THEN "done" ELSE manager
    /\ UNCHANGED <<config, crawl_pc, task_queue, task_senders, item_queue,
                   item_senders, item_reciever, tasks, delivered,
                   stream_ended>>

\* A join handle of a finished execution leaves buffer_unordered; for_each
\* logs a join error when the execution panicked.
Join(c) ==
    /\ manager \in {"running", "draining"}
    /\ c \in in_progress_queue
    /\ tasks[c].pc = "done"
    /\ in_progress_queue' = in_progress_queue \ {c}
    /\ UNCHANGED <<config, crawl_pc, task_queue, task_senders, item_queue,
                   item_senders, item_reciever, manager, tasks, delivered,
                   stream_ended>>

\* Join, with the task of an execution that returned Ok freed together with
\* its join handle.
JoinForget(c) ==
    /\ manager \in {"running", "draining"}
    /\ c \in in_progress_queue
    /\ tasks[c].pc = "done"
    /\ in_progress_queue' = in_progress_queue \ {c}
    /\ tasks' = IF tasks[c].result = "Ok"
                THEN [d \in DOMAIN tasks \ {c} |-> tasks[d]]
                ELSE tasks
    /\ UNCHANGED <<config, crawl_pc, task_queue, task_senders, item_queue,
                   item_senders, item_reciever, manager, delivered,
                   stream_ended>>

\* for_each completes: the manager task ends and drops task_reciever.
ManagerEnd ==
    /\ manager = "draining"
    /\ in_progress_queue = {}
    /\ manager' = "done"
    /\ UNCHANGED <<config, crawl_pc, task_queue, task_senders, item_queue,
                   item_senders, item_reciever, in_progress_queue, tasks,
                   delivered, stream_ended>>

----------------------------------------------------------------------------
(* Callback::run and PendingCallback::run                                  *)

\* run returns r: self and the handler's receiver are dropped.
Ended(t, r) ==
    [t EXCEPT !.pc = "done", !.result = r, !.pending = 0, !.chan = <<>>]

\* TransportFails as it would be if the failed execution kept its channel
\* handles alive (self leaked instead of dropped on the error path).
TransportFailsLeaks(c) ==
    /\ c \in DOMAIN tasks
    /\ tasks[c].pc = "fetch"
    /\ tasks' = [tasks EXCEPT ![c] = Ended(@, "Callback")]
    /\ UNCHANGED <<config, crawl_pc, task_queue, task_senders, item_queue,
                   item_senders, item_reciever, manager, in_progress_queue,
                   delivered, stream_ended>>

\* client.execute(request) fails: run returns Err(Error::Callback).
TransportFails(c) ==
    /\ c \in DOMAIN tasks
    /\ tasks[c].pc = "fetch"
    /\ tasks' = [tasks EXCEPT ![c] = Ended(@, "Callback")]
    /\ task_senders' = task_senders - 1
    /\ item_senders' = item_senders - 1
    /\ UNCHANGED <<config, crawl_pc, task_queue, item_queue, item_reciever,
                   manager, in_progress_queue, delivered, stream_ended>>

\* client.execute(request) succeeds and handler.handle spawns the handler
\* body and returns the receiver of its channel.
InvokeHandler(c) ==
    /\ c \in DOMAIN tasks
    /\ tasks[c].pc = "fetch"
    /\ tasks' = [tasks EXCEPT ![c].pc = "recv", ![c].hst = "running"]
    /\ UNCHANGED <<config, crawl_pc, task_queue, task_senders, item_queue,
                   item_senders, item_reciever, manager, in_progress_queue,
                   delivered, stream_ended>>

\* handler.handle panics: the execution's task unwinds and drops self.
HandlePanics(c) ==
    /\ c \in DOMAIN tasks
    /\ tasks[c].pc = "fetch"
    /\ tasks' = [tasks EXCEPT ![c] = Ended(@, "Panic")]
    /\ task_senders' = task_senders - 1
    /\ item_senders' = item_senders - 1
    /\ UNCHANGED <<config, crawl_pc, task_queue, item_queue, item_reciever,
                   manager, in_progress_queue, delivered, stream_ended>>

\* RouteItem as it would be if the item channel held one item and a full
\* channel made the send give the item up (try_send on channel(1)).
RouteItemTrySend(c) ==
    /\ c \in DOMAIN tasks
    /\ tasks[c].pc = "recv"
    /\ tasks[c].chan # <<>>
    /\ LET i == Head(tasks[c].chan)
       IN  /\ Outcomes(c)[i].tag = "Item"
           /\ item_queue' = IF item_queue = <<>> /\ item_reciever = "open"
                            THEN <<<<c, i>>>> ELSE item_queue
           /\ tasks' = [tasks EXCEPT ![c].taken = i, ![c].chan = Tail(@)]
    /\ UNCHANGED <<config, crawl_pc, task_queue, task_senders, item_senders,
                   item_reciever, manager, in_progress_queue, delivered,
                   stream_ended>>

\* RouteItem as it would be if the result of item_sender.send were ignored:
\* the routing loop goes on after a failed send.
RouteItemIgnoresError(c) ==
    /\ c \in DOMAIN tasks
    /\ tasks[c].pc = "recv"
    /\ tasks[c].chan # <<>>
    /\ LET i == Head(tasks[c].chan)
       IN  /\ Outcomes(c)[i].tag = "Item"
           /\ item_queue' = IF item_reciever = "open"
                            THEN Append(item_queue, <<c, i>>)
                            ELSE item_queue
           /\ tasks' = [tasks EXCEPT ![c].taken = i, ![c].chan = Tail(@)]
    /\ UNCHANGED <<config, crawl_pc, task_queue, task_senders, item_senders,
                   item_reciever, manager, in_progress_queue, delivered,
                   stream_ended>>

\* RouteItem as it would be if the item channel were a stack: the newest
\* item is the first the stream yields.
RouteItemOnTop(c) ==
    /\ c \in DOMAIN tasks
    /\ tasks[c].pc = "recv"
    /\ tasks[c].chan # <<>>
    /\ LET i == Head(tasks[c].chan)
       IN  /\ Outcomes(c)[i].tag = "Item"
           /\ IF item_reciever = "open"
              THEN /\ item_queue' = <<<<c, i>>>> \o item_queue
                   /\ tasks' = [tasks EXCEPT ![c].taken = i,
                                             ![c].chan = Tail(@)]
                   /\ UNCHANGED <<task_senders, item_senders>>
              ELSE /\ tasks' = [tasks EXCEPT
                                  ![c] = Ended([@ EXCEPT !.taken = i],
                                               "ItemQueue")]
                   /\ task_senders' = task_senders - 1
                   /\ item_senders' = item_senders - 1
                   /\ UNCHANGED item_queue
    /\ UNCHANGED <<config, crawl_pc, task_queue, item_reciever, manager,
                   in_progress_queue, delivered, stream_ended>>

\* stream.recv() yields Indeterminate::Item: item_sender.send(item).
RouteItem(c) ==
    /\ c \in DOMAIN tasks
    /\ tasks[c].pc = "recv"
    /\ tasks[c].chan # <<>>
    /\ LET i == Head(tasks[c].chan)
       IN  /\ Outcomes(c)[i].tag = "Item"
           /\ IF item_reciever = "open"
              THEN /\ item_queue' = Append(item_queue, <<c, i>>)
                   /\ tasks' = [tasks EXCEPT ![c].taken = i,
                                             ![c].chan = Tail(@)]
                   /\ UNCHANGED <<task_senders, item_senders>>
              ELSE /\ tasks' = [tasks EXCEPT
                                  ![c] = Ended([@ EXCEPT !.taken = i],
                                               "ItemQueue")]
                   /\ task_senders' = task_senders - 1
                   /\ item_senders' = item_senders - 1
                   /\ UNCHANGED item_queue
    /\ UNCHANGED <<config, crawl_pc, task_queue, item_reciever, manager,
                   in_progress_queue, delivered, stream_ended>>

\* RouteCallback as it would be if pending_next got no item sender of its
\* own (item_sender not cloned).
RouteCallbackNoItemSender(c) ==
    /\ c \in DOMAIN tasks
    /\ tasks[c].pc = "recv"
    /\ tasks[c].chan # <<>>
    /\ LET i == Head(tasks[c].chan)
       IN  /\ Outcomes(c)[i].tag = "Callback"
           /\ tasks' = [tasks EXCEPT ![c].pc = "send", ![c].taken = i,
                                     ![c].pending = i, ![c].chan = Tail(@)]
    /\ task_senders' = task_senders + 1
    /\ UNCHANGED <<config, crawl_pc, task_queue, item_queue, item_senders,
                   item_reciever, manager, in_progress_queue, delivered,
                   stream_ended>>

\* RouteCallback as it would be if the send of pending_next were spawned
\* instead of awaited: the routing loop goes on to the next outcome.
RouteCallbackDetached(c) ==
    /\ c \in DOMAIN tasks
    /\ tasks[c].pc = "recv"
    /\ tasks[c].chan # <<>>
    /\ LET i == Head(tasks[c].chan)
       IN  /\ Outcomes(c)[i].tag = "Callback"
           /\ tasks' = [tasks EXCEPT ![c].taken = i, ![c].pending = i,
                                     ![c].chan = Tail(@)]
    /\ task_senders' = task_senders + 1
    /\ item_senders' = item_senders + 1
    /\ UNCHANGED <<config, crawl_pc, task_queue, item_queue, item_reciever,
                   manager, in_progress_queue, delivered, stream_ended>>

\* stream.recv() yields Indeterminate::Callback: pending_next is built with
\* clones of both senders.
RouteCallback(c) ==
    /\ c \in DOMAIN tasks
    /\ tasks[c].pc = "recv"
    /\ tasks[c].chan # <<>>
    /\ LET i == Head(tasks[c].chan)
       IN  /\ Outcomes(c)[i].tag = "Callback"
           /\ tasks' = [tasks EXCEPT ![c].pc = "send", ![c].taken = i,
                                     ![c].pending = i, ![c].chan = Tail(@)]
    /\ task_senders' = task_senders + 1
    /\ item_senders' = item_senders + 1
    /\ UNCHANGED <<config, crawl_pc, task_queue, item_queue, item_reciever,
                   manager, in_progress_queue, delivered, stream_ended>>

\* The names a never-ending chain gives its callbacks.
ChainNames == {[j \in 1..n |-> 1] : n \in 0..3}

\* The name of the follow-up that is outcome i of callback c.  A never-ending
\* chain reuses the shortest name no queued or spawned callback bears.
Child(c, i) ==
    IF HandlerOf(c) = "loop"
    THEN LET free == {n \in ChainNames : n \notin DOMAIN tasks \cup Range(task_queue)}
         IN  CHOOSE n \in free : \A m \in free : Len(n) <= Len(m)
    ELSE Append(c, i)

\* Enqueue as it would be with try_send: a full queue makes the execution
\* give the follow-up up and go on.
EnqueueTrySend(c) ==
    /\ c \in DOMAIN tasks
    /\ tasks[c].pc = "send"
    /\ tasks' = [tasks EXCEPT ![c].pc = "recv", ![c].pending = 0]
    /\ IF Len(task_queue) < task_queue_size
       THEN /\ task_queue' = Append(task_queue, Append(c, tasks[c].pending))
            /\ UNCHANGED <<task_senders, item_senders>>
       ELSE /\ task_senders' = task_senders - 1
            /\ item_senders' = item_senders - 1
            /\ UNCHANGED task_queue
    /\ UNCHANGED <<config, crawl_pc, item_queue, item_reciever, manager,
                   in_progress_queue, delivered, stream_ended>>

\* Enqueue as it would be if the execution sent its own callback again
\* instead of the follow-up.
EnqueueItself(c) ==
    /\ c \in DOMAIN tasks
    /\ tasks[c].pc = "send"
    /\ Len(task_queue) < task_queue_size
    /\ task_queue' = Append(task_queue, c)
    /\ tasks' = [tasks EXCEPT ![c].pc = "recv", ![c].pending = 0]
    /\ UNCHANGED <<config, crawl_pc, task_senders, item_senders, item_queue,
                   item_reciever, manager, in_progress_queue, delivered,
                   stream_ended>>

\* task_sender.send(pending_next).await: completes when the queue has a free
\* slot, fails when task_reciever is gone.
Enqueue(c) ==
    /\ c \in DOMAIN tasks
    /\ tasks[c].pc = "send"
    /\ IF manager # "done"
       THEN /\ Len(task_queue) < task_queue_size
            /\ task_queue' = Append(task_queue, Child(c, tasks[c].pending))
            /\ tasks' = [tasks EXCEPT ![c].pc = "recv", ![c].pending = 0]
            /\ UNCHANGED <<task_senders, item_senders>>
       ELSE /\ tasks' = [tasks EXCEPT ![c] = Ended(@, "TaskQueue")]
            /\ task_senders' = task_senders - 2
            /\ item_senders' = item_senders - 2
            /\ UNCHANGED task_queue
    /\ UNCHANGED <<config, crawl_pc, item_queue, item_reciever, manager,
                   in_progress_queue, delivered, stream_ended>>

\* stream.recv() yields None: the handler's sender is dropped and its
\* channel is empty; run returns Ok(()).
RunOk(c) ==
    /\ c \in DOMAIN tasks
    /\ tasks[c].pc = "recv"
    /\ tasks[c].chan = <<>>
    /\ tasks[c].hst \in {"done", "panicked"}
    /\ tasks' = [tasks EXCEPT ![c] = Ended(@, "Ok")]
    /\ task_senders' = task_senders - 1
    /\ item_senders' = item_senders - 1
    /\ UNCHANGED <<config, crawl_pc, task_queue, item_queue, item_reciever,
                   manager, in_progress_queue, delivered, stream_ended>>

----------------------------------------------------------------------------
(* The handler body spawned by the handle macro, on channel(1)             *)

\* Yield as it would be on an unbounded outcome channel: the handler never
\* waits for its previous outcome to be taken.
YieldUnbounded(c) ==
    /\ c \in DOMAIN tasks
    /\ tasks[c].hst = "running"
    /\ tasks[c].hsent < Len(Outcomes(c))
    /\ IF tasks[c].pc = "done"
       THEN tasks' = [tasks EXCEPT ![c].hst = "panicked"]
       ELSE tasks' = [tasks EXCEPT ![c].hsent = @ + 1,
                                   ![c].chan = Append(@, tasks[c].hsent + 1)]
    /\ UNCHANGED <<config, crawl_pc, task_queue, task_senders, item_queue,
                   item_senders, item_reciever, manager, in_progress_queue,
                   delivered, stream_ended>>

\* yield e becomes __yield_ind.send(e.into()).await.expect("live receiver")
Yield(c) ==
    /\ c \in DOMAIN tasks
    /\ tasks[c].hst = "running"
    /\ tasks[c].hsent < Len(Outcomes(c))
    /\ IF tasks[c].pc = "done"
       THEN tasks' = [tasks EXCEPT ![c].hst = "panicked"]
       ELSE /\ Len(tasks[c].chan) < 1
            /\ tasks' = [tasks EXCEPT ![c].hsent = @ + 1,
                                      ![c].chan = Append(@, tasks[c].hsent + 1)]
    /\ UNCHANGED <<config, crawl_pc, task_queue, task_senders, item_queue,
                   item_senders, item_reciever, manager, in_progress_queue,
                   delivered, stream_ended>>

\* The handler body returns and drops __yield_ind.
HandlerReturns(c) ==
    /\ c \in DOMAIN tasks
    /\ tasks[c].hst = "running"
    /\ tasks[c].hsent = Len(Outcomes(c))
    /\ tasks' = [tasks EXCEPT ![c].hst = "done"]
    /\ UNCHANGED <<config, crawl_pc, task_queue, task_senders, item_queue,
                   item_senders, item_reciever, manager, in_progress_queue,
                   delivered, stream_ended>>

----------------------------------------------------------------------------
(* The consumer of the stream crawl returns                                *)

\* item_reciever.recv() yields an item and the stream yields it.
StreamNext ==
    /\ crawl_pc = "returned"
    /\ item_reciever = "open"
    /\ item_queue # <<>>
    /\ delivered' = Append(delivered, Head(item_queue))
    /\ item_queue' = Tail(item_queue)
    /\ UNCHANGED <<config, crawl_pc, task_queue, task_senders, item_senders,
                   item_reciever, manager, in_progress_queue, tasks,
                   stream_ended>>

\* StreamClose as it would be if the stream ended on the first recv that
\* finds no item buffered, with senders still alive.
StreamCloseWhenEmpty ==
    /\ crawl_pc = "returned"
    /\ item_reciever = "open"
    /\ ~stream_ended
    /\ item_queue = <<>>
    /\ stream_ended' = TRUE
    /\ UNCHANGED <<config, crawl_pc, task_queue, task_senders, item_queue,
                   item_senders, item_reciever, manager, in_progress_queue,
                   tasks, delivered>>

\* item_reciever.recv() yields None: the stream ends.
StreamClose ==
    /\ crawl_pc = "returned"
    /\ item_reciever = "open"
    /\ ~stream_ended
    /\ item_queue = <<>>
    /\ item_senders = 0
    /\ stream_ended' = TRUE
    /\ UNCHANGED <<config, crawl_pc, task_queue, task_senders, item_queue,
                   item_senders, item_reciever, manager, in_progress_queue,
                   tasks, delivered>>

\* The host program drops the stream before its end.
StreamDropped ==
    /\ crawl_pc = "returned"
    /\ item_reciever = "open"
    /\ ~stream_ended
    /\ item_reciever' = "dropped"
    /\ item_queue' = <<>>
    /\ UNCHANGED <<config, crawl_pc, task_queue, task_senders, item_senders,
                   manager, in_progress_queue, tasks, delivered, stream_ended>>

----------------------------------------------------------------------------

Next ==
    \/ CrawlChannels
    \/ CrawlSendStart
    \/ CrawlSpawnManager
    \/ CrawlReturn
    \/ Dequeue
    \/ StreamEnd
    \/ ManagerEnd
    \/ StreamNext
    \/ StreamClose
    \/ StreamDropped
    \/ \E c \in Callbacks :
          \/ Join(c)
          \/ TransportFails(c)
          \/ InvokeHandler(c)
          \/ HandlePanics(c)
          \/ RouteItem(c)
          \/ RouteCallback(c)
          \/ Enqueue(c)
          \/ RunOk(c)
          \/ Yield(c)
          \/ HandlerReturns(c)

Spec == Init /\ [][Next]_vars

\* The scheduling of the tokio runtime: a task that can make a step is
\* eventually polled, and a request eventually gets a response or an error.
\* The host program keeps polling the stream unless it drops it.
Fairness ==
    /\ WF_vars(CrawlChannels) /\ WF_vars(CrawlSendStart)
    /\ WF_vars(CrawlSpawnManager) /\ WF_vars(CrawlReturn)
    /\ WF_vars(Dequeue) /\ WF_vars(StreamEnd) /\ WF_vars(ManagerEnd)
    /\ WF_vars(StreamNext) /\ WF_vars(StreamClose)
    /\ \A c \in Callbacks :
          /\ WF_vars(Join(c))
          /\ WF_vars(TransportFails(c) \/ InvokeHandler(c) \/ HandlePanics(c))
          /\ WF_vars(RouteItem(c)) /\ WF_vars(RouteCallback(c))
          /\ WF_vars(Enqueue(c)) /\ WF_vars(RunOk(c))
          /\ WF_vars(Yield(c)) /\ WF_vars(HandlerReturns(c))

FairSpec == Spec /\ Fairness

\* The scheduling of the runtime alone: the host program may poll the stream
\* slowly or never.
RuntimeFairness ==
    /\ WF_vars(CrawlChannels) /\ WF_vars(CrawlSendStart)
    /\ WF_vars(CrawlSpawnManager) /\ WF_vars(CrawlReturn)
    /\ WF_vars(Dequeue) /\ WF_vars(StreamEnd) /\ WF_vars(ManagerEnd)
    /\ \A c \in Callbacks :
          /\ WF_vars(Join(c))
          /\ WF_vars(TransportFails(c) \/ InvokeHandler(c) \/ HandlePanics(c))
          /\ WF_vars(RouteItem(c)) /\ WF_vars(RouteCallback(c))
          /\ WF_vars(Enqueue(c)) /\ WF_vars(RunOk(c))
          /\ WF_vars(Yield(c)) /\ WF_vars(HandlerReturns(c))

IdleConsumerSpec == Spec /\ RuntimeFairness

----------------------------------------------------------------------------
(* The never-ending chain of the crate documentation: every handler yields *)
(* one follow-up.  Finished executions are freed when joined.              *)

ChainInit ==
    /\ concurrent_requests \in 1..MaxConcurrent
    /\ task_queue_size \in 1..MaxQueueSize
    /\ start = "loop"
    /\ entry_size = MaxEntrySize
    /\ parse = NoParse
    /\ form_builder = NoForm
    /\ task_queue_size_bytes = task_queue_size * entry_size
    /\ builder = Built(start, concurrent_requests, task_queue_size_bytes)
    /\ crawl_pc = "channels"
    /\ task_queue = <<>>
    /\ task_senders = 0
    /\ item_queue = <<>>
    /\ item_senders = 0
    /\ item_reciever = "none"
    /\ manager = "none"
    /\ in_progress_queue = {}
    /\ tasks = <<>>
    /\ delivered = <<>>
    /\ stream_ended = FALSE

ChainNext ==
    \/ CrawlChannels
    \/ CrawlSendStart
    \/ CrawlSpawnManager
    \/ CrawlReturn
    \/ Dequeue
    \/ StreamEnd
    \/ ManagerEnd
    \/ StreamClose
    \/ StreamDropped
    \/ \E c \in ChainNames :
          \/ JoinForget(c)
          \/ TransportFails(c)
          \/ InvokeHandler(c)
          \/ HandlePanics(c)
          \/ RouteCallback(c)
          \/ Enqueue(c)
          \/ RunOk(c)
          \/ Yield(c)
          \/ HandlerReturns(c)

ChainSpec == ChainInit /\ [][ChainNext]_vars

\* The execution task of callback c, as the runtime polls it.
Execution(c) ==
    \/ TransportFails(c) \/ InvokeHandler(c) \/ HandlePanics(c)
    \/ RouteCallback(c) \/ Enqueue(c) \/ RunOk(c)

\* The handler task of callback c, as the runtime polls it.
HandlerBody(c) == Yield(c) \/ HandlerReturns(c)

ChainFairness ==
    /\ WF_vars(CrawlChannels) /\ WF_vars(CrawlSendStart)
    /\ WF_vars(CrawlSpawnManager) /\ WF_vars(CrawlReturn)
    /\ WF_vars(Dequeue) /\ WF_vars(StreamEnd) /\ WF_vars(ManagerEnd)
    /\ WF_vars(StreamClose)
    /\ \A c \in ChainNames :
          /\ WF_vars(JoinForget(c))
          /\ WF_vars(Execution(c))
          /\ WF_vars(HandlerBody(c))

ChainFairSpec == ChainSpec /\ ChainFairness

-----------------------------------------------------------------------------
(* WebBuilder and the start of Web::crawl                                  *)

\* What stays as it is while the builder is used and the crawl has made no
\* channel yet.
NoCrawlState ==
    UNCHANGED <<form_builder, parse, task_queue, task_senders, item_queue, item_senders,
                item_reciever, manager, in_progress_queue, tasks, delivered,
                stream_ended>>

\* Scraper::web(): a builder with every Option unset, for a crawl whose
\* PendingCallback takes entry_size bytes.
BuildInit ==
    /\ builder = [start |-> FALSE, handler |-> "none", context |-> FALSE,
                  concurrent_requests |-> 0, task_queue_size_bytes |-> 0]
    /\ entry_size \in 1..MaxEntrySize
    /\ parse = NoParse
    /\ form_builder = NoForm
    /\ concurrent_requests = 0
    /\ task_queue_size_bytes = 0
    /\ task_queue_size = 0
    /\ start = "none"
    /\ crawl_pc = "builder"
    /\ task_queue = <<>>
    /\ task_senders = 0
    /\ item_queue = <<>>
    /\ item_senders = 0
    /\ item_reciever = "none"
    /\ manager = "none"
    /\ in_progress_queue = {}
    /\ tasks = <<>>
    /\ delivered = <<>>
    /\ stream_ended = FALSE

\* WebBuilder::start: self.start = Some(start)
SetStart ==
    /\ crawl_pc = "builder"
    /\ builder' = [builder EXCEPT !.start = TRUE]
    /\ UNCHANGED <<task_queue_size_bytes, entry_size, concurrent_requests,
                   task_queue_size, start, crawl_pc>>
    /\ NoCrawlState

\* WebBuilder::handler: self.handler = Some(handler)
SetHandler ==
    \E h \in Handlers :
        /\ crawl_pc = "builder"
        /\ builder' = [builder EXCEPT !.handler = h]
        /\ UNCHANGED <<task_queue_size_bytes, entry_size, concurrent_requests,
                       task_queue_size, start, crawl_pc>>
        /\ NoCrawlState

\* WebBuilder::context: self.context = Some(context)
SetContext ==
    /\ crawl_pc = "builder"
    /\ builder' = [builder EXCEPT !.context = TRUE]
    /\ UNCHANGED <<task_queue_size_bytes, entry_size, concurrent_requests,
                   task_queue_size, start, crawl_pc>>
    /\ NoCrawlState

\* WebBuilder::concurrent_requests, given a NonZeroUsize
SetConcurrentRequests ==
    \E n \in 1..MaxConcurrent :
        /\ crawl_pc = "builder"
        /\ builder' = [builder EXCEPT !.concurrent_requests = n]
        /\ UNCHANGED <<task_queue_size_bytes, entry_size, concurrent_requests,
                       task_queue_size, start, crawl_pc>>
        /\ NoCrawlState

\* WebBuilder::task_queue_size_bytes, given a NonZeroUsize
SetTaskQueueSizeBytes ==
    \E b \in 1..MaxQueueSizeBytes :
        /\ crawl_pc = "builder"
        /\ builder' = [builder EXCEPT !.task_queue_size_bytes = b]
        /\ UNCHANGED <<task_queue_size_bytes, entry_size, concurrent_requests,
                       task_queue_size, start, crawl_pc>>
        /\ NoCrawlState

\* Mutant of Build: the context is not required.
BuildWithoutContext ==
    /\ crawl_pc = "builder"
    /\ builder.handler # "none"
    /\ builder.start
    /\ crawl_pc' = "built"
    /\ start' = builder.handler
    /\ concurrent_requests' =
          IF builder.concurrent_requests = 0 THEN DefaultConcurrentRequests
          ELSE builder.concurrent_requests
    /\ task_queue_size_bytes' =
          IF builder.task_queue_size_bytes = 0 THEN DefaultTaskQueueSizeBytes
          ELSE builder.task_queue_size_bytes
    /\ UNCHANGED <<builder, entry_size, task_queue_size>>
    /\ NoCrawlState

\* WebBuilder::build with handler, start and context set: the three expect
\* calls pass, the seed callback is made and the unset limits get their
\* defaults.
Build ==
    /\ crawl_pc = "builder"
    /\ builder.handler # "none"
    /\ builder.start
    /\ builder.context
    /\ crawl_pc' = "built"
    /\ start' = builder.handler
    /\ concurrent_requests' =
          IF builder.concurrent_requests = 0 THEN DefaultConcurrentRequests
          ELSE builder.concurrent_requests
    /\ task_queue_size_bytes' =
          IF builder.task_queue_size_bytes = 0 THEN DefaultTaskQueueSizeBytes
          ELSE builder.task_queue_size_bytes
    /\ UNCHANGED <<builder, entry_size, task_queue_size>>
    /\ NoCrawlState

\* WebBuilder::build with handler, start or context unset: an expect call
\* panics and no Web is made.
BuildPanics ==
    /\ crawl_pc = "builder"
    /\ builder.handler = "none" \/ ~builder.start \/ ~builder.context
    /\ crawl_pc' = "build_panicked"
    /\ UNCHANGED <<builder, task_queue_size_bytes, entry_size,
                   concurrent_requests, task_queue_size, start>>
    /\ NoCrawlState

\* Web::crawl, its first statements: the capacity of the task queue is the
\* byte budget divided by the size of an entry.
CrawlQueueSize ==
    /\ crawl_pc = "built"
    /\ task_queue_size' = task_queue_size_bytes \div entry_size
    /\ crawl_pc' = "channels"
    /\ UNCHANGED <<builder, task_queue_size_bytes, entry_size,
                   concurrent_requests, start>>
    /\ NoCrawlState

\* channel(0): tokio's bounded channel panics on a capacity of zero, so
\* crawl() makes no queue and sends no seed.
CrawlChannelsPanics ==
    /\ crawl_pc = "channels"
    /\ task_queue_size = 0
    /\ crawl_pc' = "crawl_panicked"
    /\ UNCHANGED config
    /\ NoCrawlState

BuildNext ==
    \/ SetStart
    \/ SetHandler
    \/ SetContext
    \/ SetConcurrentRequests
    \/ SetTaskQueueSizeBytes
    \/ Build
    \/ BuildPanics
    \/ CrawlQueueSize
    \/ CrawlChannels
    \/ CrawlChannelsPanics
    \/ CrawlSendStart

BuildSpec == BuildInit /\ [][BuildNext]_vars

-----------------------------------------------------------------------------
(* The parse helpers of util.rs                                            *)

\* Attribute names and values of the elements explored.
Attrs == {"href", "id"}

Values == {"u", "v"}

\* An element is the map of its attributes (ElementRef::value().attr).
Elements == UNION {[D -> Values] : D \in SUBSET Attrs}

\* What an iterator or a Select yields, in order.
Selects == UNION {[1..n -> Elements] : n \in 0..MaxSelect}

Ok(v) == [tag |-> "Ok", value |-> v]

\* ParseError::NonUniqueElement, ParseError::NoElement
Err(e) == [tag |-> "Err", error |-> e]

\* ParseError::MissingAttribute(attr.to_string())
MissingAttribute(a) == [tag |-> "Err", error |-> "MissingAttribute", given |-> a]

\* The result of a call not made yet.
Pending == [tag |-> "Pending"]

None == [some |-> FALSE]

Some(v) == [some |-> TRUE, value |-> v]

\* The for loop of get_unique_element over what is left of the iterator,
\* and the match that follows it.
RECURSIVE UniqueLoop(_, _)
UniqueLoop(rest, found_element) ==
    IF rest = <<>>
    THEN IF found_element.some THEN Ok(found_element.value)
         ELSE Err("NoElement")
    ELSE IF found_element.some THEN Err("NonUniqueElement")
         ELSE UniqueLoop(Tail(rest), Some(Head(rest)))

\* Mutant of get_unique_element: the first element is returned whatever
\* follows it.
get_first_element(sel) ==
    IF sel = <<>> THEN Err("NoElement") ELSE Ok(Head(sel))

get_unique_element(sel) == UniqueLoop(sel, None)

\* get_unique_element(select).map(attr lookup or MissingAttribute).flatten()
parse_attr(sel, a) ==
    LET element == get_unique_element(sel)
    IN  IF element.tag = "Ok"
        THEN IF a \in DOMAIN element.value THEN Ok(element.value[a])
             ELSE MissingAttribute(a)
        ELSE element

\* A caller holds a selection and an attribute name and has called neither
\* helper yet.
ParseInit ==
    /\ parse \in [pc : {"call"}, select : Selects, attr : Attrs,
                  element : {Pending}, value : {Pending}]
    /\ form_builder = NoForm
    /\ builder = [start |-> FALSE, handler |-> "none", context |-> FALSE,
                  concurrent_requests |-> 0, task_queue_size_bytes |-> 0]
    /\ entry_size = 1
    /\ concurrent_requests = 0
    /\ task_queue_size_bytes = 0
    /\ task_queue_size = 0
    /\ start = "none"
    /\ crawl_pc = "builder"
    /\ task_queue = <<>>
    /\ task_senders = 0
    /\ item_queue = <<>>
    /\ item_senders = 0
    /\ item_reciever = "none"
    /\ manager = "none"
    /\ in_progress_queue = {}
    /\ tasks = <<>>
    /\ delivered = <<>>
    /\ stream_ended = FALSE

NoCrawlStep ==
    UNCHANGED <<form_builder, builder, task_queue_size_bytes, entry_size,
                concurrent_requests, task_queue_size, start, crawl_pc,
                task_queue, task_senders, item_queue, item_senders,
                item_reciever, manager, in_progress_queue, tasks, delivered,
                stream_ended>>

\* The caller calls get_unique_element on a fresh iterator over the
\* selection.
GetUniqueElement ==
    /\ parse.pc = "call"
    /\ parse.element = Pending
    /\ parse' = [parse EXCEPT !.element = get_unique_element(parse.select)]
    /\ NoCrawlStep

\* The caller calls parse_attr on a fresh iterator over the selection.
ParseAttr ==
    /\ parse.pc = "call"
    /\ parse.value = Pending
    /\ parse' = [parse EXCEPT !.value = parse_attr(parse.select, parse.attr)]
    /\ NoCrawlStep

ParseNext == GetUniqueElement \/ ParseAttr

ParseSpec == ParseInit /\ [][ParseNext]_vars

-----------------------------------------------------------------------------
(* FormBuilder of util.rs                                                  *)

\* Option<T> over the values of S.
Opt(S) == {None} \cup {Some(v) : v \in S}

\* An input element of a page: its id and value attributes.
Input(id, value) == [id |-> id, value |-> value]

\* The input elements of the forms explored, in document order.
InputLists ==
    { <<>>,
      <<Input(Some("user"), Some("x"))>>,
      <<Input(None, Some("x"))>>,
      <<Input(Some("user"), None)>>,
      <<Input(Some("user"), Some("x")), Input(Some("user"), Some("z"))>> }

\* A form element of a page: its id, name and action attributes and its
\* input elements.
Forms ==
    [id : Opt({"login"}), name : Opt({"auth"}), action : Opt({"/login"}),
     inputs : InputLists]

\* The form elements of an Html body, in document order.
Bodies == UNION {[1..n -> Forms] : n \in 0..MaxForms}

FormField(name, value) == [name |-> name, value |-> value]

\* The fields a caller gives with fields() and add_field().
FieldLists ==
    { <<>>,
      <<FormField("user", "me")>>,
      <<FormField("token", "t")>>,
      <<FormField("user", "a"), FormField("user", "b")>> }

\* form_qualifiers: one id="..." and one name="..." entry, for each that is
\* set.
FormQualifiers(fb) ==
    (IF fb.id.some THEN <<[attr |-> "id", value |-> fb.id.value]>> ELSE <<>>)
    \o (IF fb.name.some THEN <<[attr |-> "name", value |-> fb.name.value]>>
        ELSE <<>>)

\* Selector::parse of "form[" + qualifiers.join(",") + "]".  The text is a
\* CSS selector only with exactly one qualifier: "form[]" has no attribute
\* name and a comma cannot follow the value inside the brackets.
SelectorParse(qualifiers) ==
    IF Len(qualifiers) = 1 THEN Ok(qualifiers[1]) ELSE Err("SelectorParse")

\* body.select(&form_selector): the forms carrying the attribute with the
\* value, in document order.
SelectForms(body, selector) ==
    SelectSeq(body, LAMBDA f : f[selector.attr] = Some(selector.value))

\* The HashMap collected from (name, value) pairs: a later pair replaces an
\* earlier one with the same name.
RECURSIVE CollectFields(_)
CollectFields(fields) ==
    IF fields = <<>> THEN <<>>
    ELSE LET f == fields[Len(fields)]
         IN  (f.name :> f.value) @@ CollectFields(SubSeq(fields, 1, Len(fields) - 1))

\* The loop over form.select(&field_selector): inputs without id are
\* skipped, a missing value is "", a later input replaces an earlier one.
RECURSIVE InputFields(_)
InputFields(inputs) ==
    IF inputs = <<>> THEN <<>>
    ELSE LET field == inputs[Len(inputs)]
             before == InputFields(SubSeq(inputs, 1, Len(inputs) - 1))
         IN  IF ~field.id.some THEN before
             ELSE (field.id.value :>
                      (IF field.value.some THEN field.value.value ELSE ""))
                  @@ before

\* A call that panicked, and a call that returned v.
Panicked(message) == [tag |-> "Panic", message |-> message]

Returned(v) == [tag |-> "Returned", value |-> v]

\* FormBuilder::build: expect on the body, unwrap on the parsed selector,
\* the first matching form, unwrap on its action attribute, and the
\* caller's fields extending the page's.
FormBuilderBuild(fb) ==
    IF ~fb.body.some THEN Panicked("body is required to be set")
    ELSE LET form_selector == SelectorParse(FormQualifiers(fb))
         IN  IF form_selector.tag = "Err" THEN Panicked("Selector::parse")
             ELSE LET found == SelectForms(fb.body.value,
                                           form_selector.value)
                  IN  IF found = <<>> THEN Returned(None)
                      ELSE IF ~Head(found).action.some
                           THEN Panicked("action")
                           ELSE Returned(Some(
                                  [path |-> Head(found).action.value,
                                   fields |-> CollectFields(fb.fields)
                                              @@ InputFields(Head(found).inputs)]))

\* Form::builder() followed by the caller's id, name and field calls; no
\* body is set yet.
FormInit ==
    /\ form_builder \in [pc : {"builder"}, id : Opt({"login"}),
                         name : Opt({"auth"}), fields : FieldLists,
                         body : {None}, built : {Pending}]
    /\ parse = NoParse
    /\ builder = [start |-> FALSE, handler |-> "none", context |-> FALSE,
                  concurrent_requests |-> 0, task_queue_size_bytes |-> 0]
    /\ entry_size = 1
    /\ concurrent_requests = 0
    /\ task_queue_size_bytes = 0
    /\ task_queue_size = 0
    /\ start = "none"
    /\ crawl_pc = "builder"
    /\ task_queue = <<>>
    /\ task_senders = 0
    /\ item_queue = <<>>
    /\ item_senders = 0
    /\ item_reciever = "none"
    /\ manager = "none"
    /\ in_progress_queue = {}
    /\ tasks = <<>>
    /\ delivered = <<>>
    /\ stream_ended = FALSE

NoUtilStep ==
    UNCHANGED <<parse, builder, task_queue_size_bytes, entry_size,
                concurrent_requests, task_queue_size, start, crawl_pc,
                task_queue, task_senders, item_queue, item_senders,
                item_reciever, manager, in_progress_queue, tasks, delivered,
                stream_ended>>

\* FormBuilder::body
FormBody ==
    /\ form_builder.pc = "builder"
    /\ ~form_builder.body.some
    /\ \E body \in Bodies :
          form_builder' = [form_builder EXCEPT !.body = Some(body)]
    /\ NoUtilStep

\* FormBuilder::build, which consumes the builder.
FormBuild ==
    /\ form_builder.pc = "builder"
    /\ form_builder' = [form_builder EXCEPT
                           !.pc = "built",
                           !.built = FormBuilderBuild(form_builder)]
    /\ NoUtilStep

FormNext == FormBody \/ FormBuild

FormSpec == FormInit /\ [][FormNext]_vars

----------------------------------------------------------------------------
(* Properties                                                              *)

Queued == Range(task_queue)

Failures == {"Callback", "ItemQueue", "TaskQueue", "Panic"}

\* C1: the number of executions started and not finished never exceeds
\* concurrent_requests, and a callback is dequeued only in a state where
\* fewer than concurrent_requests executions are in flight.
ConcurrencyLimit ==
    /\ [](Cardinality(InFlight) <= concurrent_requests)
    /\ [][DOMAIN tasks' # DOMAIN tasks
            => Cardinality(InFlight) < concurrent_requests]_vars

\* The limit is reached while a callback waits in the queue.
ConcurrencyLimitReached ==
    /\ concurrent_requests = 2
    /\ Cardinality(InFlight) = 2
    /\ task_queue # <<>>

\* Every worker slot is held by an execution suspended on a full task queue.
AllSlotsSuspended ==
    /\ Cardinality(in_progress_queue) = concurrent_requests
    /\ Len(task_queue) = task_queue_size
    /\ \A c \in in_progress_queue : tasks[c].pc = "send"

\* C2: the crawl never deadlocks: no reachable state has every worker slot
\* held by an execution suspended on enqueuing into a full task queue.
NoDeadlock == ~AllSlotsSuspended

Complete ==
    /\ task_queue = <<>>
    /\ InFlight = {}
    /\ manager = "done"
    /\ stream_ended

\* C3: under fair scheduling a crawl whose stream is not dropped eventually
\* reaches Complete.
EventuallyComplete == <>(Complete \/ item_reciever = "dropped")

\* C4: the item stream never closes early: once it has yielded
\* end-of-stream the task queue is empty and no execution is in flight, and
\* while a callback is queued or executing an item sender is alive and the
\* stream has not ended.
NoEarlyClose ==
    /\ stream_ended => task_queue = <<>> /\ InFlight = {}
    /\ task_queue # <<>> \/ InFlight # {}
          => item_senders > 0 /\ ~stream_ended

\* The stream has ended after a crawl of several callbacks.
ClosedAfterFollowUps ==
    /\ stream_ended
    /\ Cardinality(DOMAIN tasks) >= 3

\* The items execution c took from its handler's channel.
ItemsReached(c) ==
    {<<c, i>> : i \in {j \in 1..tasks[c].taken : Outcomes(c)[j].tag = "Item"}}

\* C5: when the stream closes every item an execution reached has been
\* delivered exactly once and nothing else has; an execution that returned
\* Ok reached every outcome of its handler.
NoItemLostOrDuplicated ==
    stream_ended =>
        /\ Range(delivered) = UNION {ItemsReached(c) : c \in DOMAIN tasks}
        /\ \A i, j \in DOMAIN delivered : delivered[i] = delivered[j] => i = j
        /\ \A c \in DOMAIN tasks :
              tasks[c].result = "Ok" => tasks[c].taken = Len(Outcomes(c))

\* Two independent branches each yielded one item, both delivered.
TwoBranchesDelivered ==
    /\ start = "two"
    /\ concurrent_requests = 2
    /\ stream_ended
    /\ Range(delivered) = {<<<<1>>, 1>>, <<<<2>>, 1>>}

\* C6: the task queue never holds more than task_queue_size callbacks; a
\* step only appends one callback, removes the head or leaves the queue; an
\* execution sending a follow-up stays suspended with the same follow-up
\* while the queue is full, and leaves the send only by appending exactly
\* that follow-up.
BoundedLosslessQueue ==
    /\ [](Len(task_queue) <= task_queue_size)
    /\ [][/\ \/ task_queue' = task_queue
             \/ task_queue # <<>> /\ task_queue' = Tail(task_queue)
             \/ \E c \in Callbacks : task_queue' = Append(task_queue, c)
          /\ \A c \in DOMAIN tasks :
                tasks[c].pc = "send" =>
                  /\ Len(task_queue) = task_queue_size =>
                        /\ tasks'[c].pc = "send"
                        /\ tasks'[c].pending = tasks[c].pending
                        /\ Len(task_queue') <= Len(task_queue)
                  /\ tasks'[c].pc # "send" =>
                        task_queue' =
                            Append(task_queue, Append(c, tasks[c].pending))
         ]_vars

\* An execution is suspended on a full queue after an earlier follow-up of
\* its own was accepted.
SuspendedOnFullQueue ==
    \E c \in DOMAIN tasks :
        /\ tasks[c].pc = "send"
        /\ tasks[c].pending >= 2
        /\ Len(task_queue) = task_queue_size

\* The follow-ups of callback c that exist anywhere.
FollowUps(c) ==
    {d \in Queued \cup DOMAIN tasks : d # <<>> /\ Front(d) = c}

\* C7: with a task queue of capacity 1 and a seed handler yielding three
\* follow-ups, all three follow-ups are eventually executed.
ThreeFollowUpsExecuted ==
    (task_queue_size = 1 /\ start = "fan3")
        ~> (\A i \in 1..3 : <<i>> \in DOMAIN tasks)

\* C8: an execution whose transport fails never invokes its handler, routes
\* no item and no follow-up; the failing step releases its channel handles
\* and leaves the queue, the item stream and every other execution as they
\* were, and its join handle can leave the worker slot.
TransportFailureIsolated ==
    /\ [](\A c \in DOMAIN tasks :
            tasks[c].result = "Callback" =>
              /\ tasks[c].hst = "none"
              /\ tasks[c].hsent = 0 /\ tasks[c].taken = 0
              /\ FollowUps(c) = {}
              /\ \A x \in Range(item_queue) \cup Range(delivered) : x[1] # c
              /\ c \in in_progress_queue => ENABLED Join(c))
    /\ [][\A c \in DOMAIN tasks :
            tasks[c].pc = "fetch" /\ tasks'[c].result = "Callback" =>
              /\ task_queue' = task_queue
              /\ item_queue' = item_queue /\ delivered' = delivered
              /\ task_senders' = task_senders - 1
              /\ item_senders' = item_senders - 1
              /\ in_progress_queue' = in_progress_queue
              /\ manager' = manager
              /\ \A d \in DOMAIN tasks : d # c => tasks'[d] = tasks[d]
         ]_vars

\* A transport failure has freed its slot while a sibling is in flight.
TransportFailedBesideSibling ==
    \E c, d \in DOMAIN tasks :
        /\ tasks[c].result = "Callback"
        /\ c \notin in_progress_queue
        /\ c # <<>> /\ d # <<>> /\ d # c
        /\ tasks[d].pc = "recv"

\* C9: a failing execution changes nothing of the manager, the queue or any
\* other execution; the manager ends only when the queue is empty and every
\* sender is dropped, dequeues whenever a callback is queued and a slot is
\* free, and every other execution can still route the outcome it holds.
FailuresAreLocal ==
    /\ [](/\ manager = "done" =>
                task_queue = <<>> /\ InFlight = {} /\ task_senders = 0
          /\ task_queue # <<>> \/ InFlight # {} =>
                manager \in {"none", "running"}
          /\ /\ manager = "running" /\ task_queue # <<>>
             /\ Cardinality(in_progress_queue) < concurrent_requests
             => ENABLED Dequeue
          /\ \A d \in DOMAIN tasks :
                tasks[d].pc = "recv" /\ tasks[d].chan # <<>>
                  => ENABLED (RouteItem(d) \/ RouteCallback(d)))
    /\ [][\A c \in DOMAIN tasks :
            tasks[c].result = "none" /\ tasks'[c].result \in Failures =>
              /\ manager' = manager
              /\ in_progress_queue' = in_progress_queue
              /\ task_queue' = task_queue
              /\ item_reciever' = item_reciever
              /\ \A d \in DOMAIN tasks : d # c => tasks'[d] = tasks[d]
         ]_vars

\* With one worker slot, two executions in turn failed to send an item and
\* the follow-up of the second was started afterwards.
StartedAfterFailures ==
    /\ concurrent_requests = 1
    /\ start = "quotes"
    /\ <<>> \in DOMAIN tasks /\ tasks[<<>>].result = "ItemQueue"
    /\ <<1>> \in DOMAIN tasks /\ tasks[<<1>>].result = "ItemQueue"
    /\ <<1, 1>> \in DOMAIN tasks /\ tasks[<<1, 1>>].pc = "recv"

\* C10: under fair scheduling every callback accepted into the task queue
\* is eventually started.
EveryQueuedCallbackStarts ==
    \A c \in Callbacks : (c \in Queued) ~> (c \in DOMAIN tasks)

\* Some execution has failed.
SomeFailure == \E c \in DOMAIN tasks : tasks[c].result \in Failures

\* C11: in a never-ending chain in which no execution fails, again and
\* again another callback is started, and the item stream never closes.
ChainNeverEnds ==
    /\ [](~SomeFailure => ~stream_ended /\ manager # "done")
    /\ <>SomeFailure \/ []<><<Dequeue>>_vars

\* The chain has reached its third callback while the first two are still
\* in their slots.
ChainThirdCallbackQueued ==
    /\ start = "loop"
    /\ ~SomeFailure
    /\ DOMAIN tasks = {<<>>, <<1>>}
    /\ task_queue = <<<<1, 1>>>>

\* The items pushed on the item channel and not discarded, oldest first.
Pushed == delivered \o item_queue

\* Outcome k of execution c has been routed: pushed on the item channel, or
\* accepted by the task queue.
Routed(c, k) ==
    IF Outcomes(c)[k].tag = "Item"
    THEN item_reciever = "open" => <<c, k>> \in Range(Pushed)
    ELSE Append(c, k) \in Queued \cup DOMAIN tasks

\* C12: an execution takes the outcomes of its handler one by one in the
\* order of production, and takes the next only when the one before has
\* been pushed on the item channel or accepted by the task queue; its items
\* are on the item channel, and its follow-ups in the task queue, in the
\* order of production.
RoutedInOrder ==
    /\ [](/\ \A c \in DOMAIN tasks : \A k \in 1..tasks[c].taken :
                \/ Routed(c, k)
                \/ k = tasks[c].taken /\ tasks[c].pending = k
                \/ k = tasks[c].taken /\ tasks[c].result = "ItemQueue"
          /\ \A i, j \in DOMAIN Pushed :
                i < j /\ Pushed[i][1] = Pushed[j][1]
                  => Pushed[i][2] < Pushed[j][2]
          /\ \A i, j \in DOMAIN task_queue :
                /\ i < j /\ task_queue[i] # <<>> /\ task_queue[j] # <<>>
                /\ Front(task_queue[i]) = Front(task_queue[j])
                => Last(task_queue[i]) < Last(task_queue[j]))
    /\ [][\A c \in DOMAIN tasks :
            tasks'[c].taken # tasks[c].taken =>
              /\ tasks'[c].taken = tasks[c].taken + 1
              /\ tasks[c].pc = "recv" /\ tasks[c].pending = 0
              /\ \A k \in 1..tasks[c].taken : Routed(c, k)
         ]_vars

\* The seed of the example has had its follow-up accepted and then its two
\* items delivered in the order of production.
QuotesRoutedInOrder ==
    /\ start = "quotes"
    /\ <<>> \in DOMAIN tasks /\ tasks[<<>>].result = "Ok"
    /\ <<1>> \in Queued
    /\ delivered = << <<<<>>, 2>>, <<<<>>, 3>> >>

\* Callback d descends from the follow-up that is outcome k of callback c.
DescendsFrom(d, c, k) ==
    /\ Len(d) > Len(c)
    /\ SubSeq(d, 1, Len(c)) = c
    /\ d[Len(c) + 1] = k

\* C13: an item a handler yields before a follow-up is delivered before
\* every item of that follow-up and of its descendants; when the seed
\* yields item A and then follow-up B, and B yields item B, and neither
\* execution fails, the stream delivers exactly A, B and closes.
ItemBeforeFollowUpItems ==
    /\ \A j \in DOMAIN Pushed :
          \A c \in DOMAIN tasks : \A m \in 1..Len(Outcomes(c)) :
             /\ Outcomes(c)[m].tag = "Item"
             /\ \E k \in (m + 1)..Len(Outcomes(c)) :
                   DescendsFrom(Pushed[j][1], c, k)
             => \E i \in 1..(j - 1) : Pushed[i] = <<c, m>>
    /\ /\ start = "ab" /\ stream_ended
       /\ \A c \in {<<>>, <<2>>} : c \in DOMAIN tasks /\ tasks[c].result = "Ok"
       => delivered = << <<<<>>, 1>>, <<<<2>>, 1>> >>

\* With one worker slot the stream has delivered A, then B, and closed.
DeliveredAThenB ==
    /\ concurrent_requests = 1
    /\ start = "ab"
    /\ stream_ended
    /\ delivered = << <<<<>>, 1>>, <<<<2>>, 1>> >>

\* Execution c holds an item it is about to route.
HoldsItem(c) ==
    /\ tasks[c].pc = "recv"
    /\ tasks[c].chan # <<>>
    /\ Outcomes(c)[Head(tasks[c].chan)].tag = "Item"

\* C14: routing an item is never suspended, however many items wait on the
\* item channel, and although the host program never has to poll the stream
\* the crawl drains its task queue and its manager loop ends.
ItemRoutingNeverBlocks ==
    /\ [](\A c \in DOMAIN tasks : HoldsItem(c) => ENABLED RouteItem(c))
    /\ <>(task_queue = <<>> /\ manager = "done")

\* C15: an execution that takes an item once the stream is dropped ends
\* with an item-queue error in that step, which changes no other execution,
\* nor the queue, nor the manager; it routes none of the later outcomes of
\* its handler.
ItemSinkFailureStopsExecution ==
    /\ [](\A c \in DOMAIN tasks :
            tasks[c].result = "ItemQueue" =>
              /\ item_reciever = "dropped"
              /\ tasks[c].pc = "done"
              /\ Outcomes(c)[tasks[c].taken].tag = "Item"
              /\ \A k \in tasks[c].taken..Len(Outcomes(c)) :
                    /\ Append(c, k) \notin Queued \cup DOMAIN tasks
                    /\ <<c, k>> \notin Range(Pushed))
    /\ [][\A c \in DOMAIN tasks :
            /\ item_reciever = "dropped" /\ HoldsItem(c)
            /\ tasks'[c].taken # tasks[c].taken
            => /\ tasks'[c].result = "ItemQueue"
               /\ task_queue' = task_queue
               /\ manager' = manager
               /\ in_progress_queue' = in_progress_queue
               /\ \A e \in DOMAIN tasks : e # c => tasks'[e] = tasks[e]
         ]_vars

\* The seed failed to send item A, its follow-up B was never built, and the
\* manager went on to its end.
SeedStoppedAtItem ==
    /\ start = "ab"
    /\ <<>> \in DOMAIN tasks /\ tasks[<<>>].result = "ItemQueue"
    /\ tasks[<<>>].hst = "panicked"
    /\ manager = "done"

\* C16: once the host program has dropped the stream, every queued callback
\* is still started and the manager loop eventually ends.
WorkContinuesAfterDrop ==
    /\ \A c \in Callbacks :
          (item_reciever = "dropped" /\ c \in Queued) ~> (c \in DOMAIN tasks)
    /\ (item_reciever = "dropped") ~> (manager = "done")

\* C17: every element the stream delivers is an item a handler yielded, and
\* the stream eventually closes unless the host program drops it.
OnlyItemsThenClose ==
    /\ [](\A x \in Range(delivered) :
            /\ x[1] \in DOMAIN tasks
            /\ x[2] \in 1..tasks[x[1]].hsent
            /\ Outcomes(x[1])[x[2]].tag = "Item")
    /\ <>(stream_ended \/ item_reciever = "dropped")

\* C18: for every positive byte budget B and entry size S > 0 the task queue
\* is created with capacity B / S (integer division), the capacity is at
\* least 1, and crawl() makes its queue and has the seed callback accepted:
\* once the capacity is computed it is B \div S >= 1, and crawl() never
\* panics making the channel.
QueueCapacityAtLeastOne ==
    /\ crawl_pc \in {"channels", "seed", "spawn", "crawl_panicked"} =>
          /\ task_queue_size = task_queue_size_bytes \div entry_size
          /\ task_queue_size >= 1
    /\ crawl_pc # "crawl_panicked"
    /\ crawl_pc = "spawn" => task_queue = << <<>> >>

\* C19: build() gives a Web exactly when start, handler and context are all
\* set, whatever the order of the builder calls; an unset concurrency limit
\* becomes 20 and an unset byte budget 10,000,000, a set one is kept; a
\* build that aborts leaves no Web and no crawl state, and nothing follows.
BuildExactlyWhenSeedSet ==
    /\ crawl_pc \notin {"builder", "build_panicked"} =>
          /\ builder.start /\ builder.handler # "none" /\ builder.context
          /\ start = builder.handler
          /\ concurrent_requests =
                IF builder.concurrent_requests = 0 THEN 20
                ELSE builder.concurrent_requests
          /\ task_queue_size_bytes =
                IF builder.task_queue_size_bytes = 0 THEN 10000000
                ELSE builder.task_queue_size_bytes
    /\ crawl_pc = "build_panicked" =>
          /\ ~builder.start \/ builder.handler = "none" \/ ~builder.context
          /\ start = "none" /\ concurrent_requests = 0
          /\ task_queue_size_bytes = 0 /\ task_queue_size = 0
          /\ task_senders = 0 /\ item_senders = 0 /\ item_reciever = "none"
          /\ task_queue = <<>> /\ tasks = <<>> /\ manager = "none"
          /\ ~ENABLED BuildNext
    /\ crawl_pc = "builder" =>
          /\ ENABLED Build <=>
                builder.start /\ builder.handler # "none" /\ builder.context
          /\ ENABLED BuildPanics <=> ~ENABLED Build

\* C19 witness: a Web built from a builder that set only the seed, with both
\* defaults in force.
BuiltWithDefaults ==
    /\ crawl_pc = "built"
    /\ builder.concurrent_requests = 0
    /\ builder.task_queue_size_bytes = 0
    /\ concurrent_requests = 20
    /\ task_queue_size_bytes = 10000000

\* C20: get_unique_element returns Ok(e) exactly when the iterator yields
\* exactly one element e, NoElement exactly when it yields none and
\* NonUniqueElement exactly when it yields two or more; parse_attr returns
\* the attribute's value only when the element is unique and has the
\* attribute, reports NoElement and NonUniqueElement whether or not the
\* attribute is there, and MissingAttribute only for a unique element
\* without it.
UniqueElementOrError ==
    /\ parse.pc = "call" /\ parse.element.tag # "Pending" =>
          /\ parse.element.tag = "Ok" <=> Len(parse.select) = 1
          /\ parse.element.tag = "Ok" =>
                parse.element.value = parse.select[1]
          /\ parse.element = Err("NoElement") <=> Len(parse.select) = 0
          /\ parse.element = Err("NonUniqueElement") <=>
                Len(parse.select) >= 2
    /\ parse.pc = "call" /\ parse.value.tag # "Pending" =>
          /\ parse.value.tag = "Ok" <=>
                /\ Len(parse.select) = 1
                /\ parse.attr \in DOMAIN parse.select[1]
          /\ parse.value.tag = "Ok" =>
                parse.value.value = parse.select[1][parse.attr]
          /\ Len(parse.select) = 0 => parse.value = Err("NoElement")
          /\ Len(parse.select) >= 2 =>
                parse.value = Err("NonUniqueElement")
          /\ parse.value.tag = "Err" /\ Len(parse.select) = 1 =>
                parse.value = MissingAttribute(parse.attr)

\* C20 witness: parse_attr was given two elements, neither with the
\* attribute, and reported the non-unique selection.
NonUniqueBeforeMissing ==
    /\ parse.pc = "call"
    /\ Len(parse.select) = 2
    /\ \A i \in 1..2 : parse.attr \notin DOMAIN parse.select[i]
    /\ parse.value = Err("NonUniqueElement")
    /\ parse.element = Err("NonUniqueElement")

\* A form of the body that carries every qualifier the builder was given.
FormMatches(fb, f) ==
    /\ fb.id.some => f.id = fb.id
    /\ fb.name.some => f.name = fb.name

\* C21: once a body is set, build returns None exactly when no form of the
\* body matches the qualifiers and otherwise returns Some(Form) without
\* aborting, whether id, name, both or neither is set and whether or not
\* the matched form has an action attribute; in the returned Form every
\* field the caller supplied has the caller's value.
FormBuildNeverAborts ==
    form_builder.pc = "built" /\ form_builder.body.some =>
        /\ form_builder.built.tag = "Returned"
        /\ form_builder.built.value = None <=>
              \A i \in DOMAIN form_builder.body.value :
                  ~FormMatches(form_builder, form_builder.body.value[i])
        /\ form_builder.built.value.some =>
              \A i \in DOMAIN form_builder.fields :
                  LET name == form_builder.fields[i].name
                  IN  /\ name \in DOMAIN form_builder.built.value.value.fields
                      /\ \E j \in DOMAIN form_builder.fields :
                            /\ form_builder.fields[j].name = name
                            /\ form_builder.built.value.value.fields[name]
                                  = form_builder.fields[j].value

\* C22: each callback is consumed exactly once: it is queued at most once
\* at a time and never again once dequeued, an execution never returns to
\* its transport step and never has its handler invoked a second time, and
\* every execution past its transport step without a transport failure or
\* a panic in handle has had its handler invoked.
ConsumedExactlyOnce ==
    /\ [](\A i, j \in DOMAIN task_queue :
             task_queue[i] = task_queue[j] => i = j)
    /\ [](\A c \in DOMAIN tasks : c \notin Queued)
    /\ [][\A c \in DOMAIN tasks :
             /\ c \in DOMAIN tasks'
             /\ tasks[c].pc # "fetch" => tasks'[c].pc # "fetch"
             /\ tasks[c].hst # "none" => tasks'[c].hst # "none"
             /\ tasks[c].pc = "done" => tasks'[c].pc = "done"]_vars
    /\ [](\A c \in DOMAIN tasks :
             (tasks[c].pc # "fetch" /\ tasks[c].result \notin {"Callback", "Panic"})
                => tasks[c].hst # "none")

\* C22 witness: the seed and a follow-up of it have both run to the end.
SeedAndFollowUpConsumed ==
    /\ <<>> \in DOMAIN tasks
    /\ tasks[<<>>].result = "Ok"
    /\ \E c \in DOMAIN tasks :
          c # <<>> /\ tasks[c].result = "Ok" /\ tasks[c].hst = "done"

\* The callback c is outcome Last(c) of its parent, whose handler was
\* invoked and whose execution took that outcome as a follow-up.
YieldedByParent(c) ==
    /\ c # <<>>
    /\ Front(c) \in DOMAIN tasks
    /\ tasks[Front(c)].hst # "none"
    /\ Last(c) \in 1..tasks[Front(c)].hsent
    /\ Outcomes(Front(c))[Last(c)].tag = "Callback"
    /\ tasks[Front(c)].taken >= Last(c)

\* C23: every callback queued, in flight or finished is the seed or was
\* yielded by its one parent's handler invocation, after that parent's
\* transport succeeded; the manager starts only queued callbacks, and a
\* callback enters the queue only as the seed sent by crawl() or as the
\* follow-up an execution is enqueuing.
CallbacksFormForest ==
    /\ [](\A c \in Queued \cup DOMAIN tasks : c = <<>> \/ YieldedByParent(c))
    /\ [][/\ DOMAIN tasks' \ DOMAIN tasks \subseteq Queued
          /\ \A c \in Queued' \ Queued :
                \/ c = <<>> /\ crawl_pc = "seed"
                \/ /\ c # <<>>
                   /\ Front(c) \in DOMAIN tasks
                   /\ tasks[Front(c)].pc = "send"
                   /\ tasks[Front(c)].pending = Last(c)]_vars

\* C23 witness: a follow-up of a follow-up of the seed is in flight.
GrandchildInFlight ==
    \E c \in DOMAIN tasks : Len(c) = 2 /\ tasks[c].pc # "done"

\* C24: callbacks are started in the order the queue accepted them: the
\* queue changes only by accepting a callback at its tail or by giving its
\* head to the manager, an execution starts only for that head, and the
\* seed is started before every other callback.
FifoAdmission ==
    /\ [][\/ /\ task_queue' = task_queue
             /\ DOMAIN tasks' = DOMAIN tasks
          \/ /\ \E c \in Callbacks : task_queue' = Append(task_queue, c)
             /\ DOMAIN tasks' = DOMAIN tasks
          \/ /\ task_queue # <<>>
             /\ task_queue' = Tail(task_queue)
             /\ DOMAIN tasks' = DOMAIN tasks \cup {Head(task_queue)}]_vars
    /\ [](tasks # <<>> => <<>> \in DOMAIN tasks)

\* C24 witness: of two queued follow-ups the one accepted first is started
\* while the other is still queued.
FirstAcceptedStartedFirst ==
    /\ <<1>> \in DOMAIN tasks
    /\ <<2>> \in Queued
    /\ tasks[<<>>].pc # "done"

\* The lifecycle state of the crawl: Seeded until the queue has accepted the
\* seed, Complete once the queue is empty, no execution is in flight, the
\* manager has ended and the stream has closed; in between Running while
\* callbacks are queued and Draining while none is.
Phase ==
    IF Complete THEN "Complete"
    ELSE IF crawl_pc \in {"channels", "seed"} THEN "Seeded"
    ELSE IF task_queue # <<>> THEN "Running"
    ELSE "Draining"

\* C25: the lifecycle changes only by Seeded -> Running, Running ->
\* Draining, Draining -> Running and Draining -> Complete; Draining returns
\* to Running only by an in-flight execution enqueuing its follow-up;
\* Complete is entered only from a state with an empty queue and no
\* execution in flight; and from Complete on no callback is enqueued or
\* started and no item is delivered.
LifecycleTransitions ==
    /\ [][Phase' # Phase =>
             <<Phase, Phase'>> \in {<<"Seeded", "Running">>,
                                    <<"Running", "Draining">>,
                                    <<"Draining", "Running">>,
                                    <<"Draining", "Complete">>}]_vars
    /\ [][(Phase = "Draining" /\ Phase' = "Running") =>
             \E c \in InFlight :
                 /\ tasks[c].pc = "send"
                 /\ task_queue' = <<Append(c, tasks[c].pending)>>]_vars
    /\ [][(Phase # "Complete" /\ Phase' = "Complete") =>
             task_queue = <<>> /\ InFlight = {}]_vars
    /\ [][Phase = "Complete" =>
             /\ Phase' = "Complete"
             /\ task_queue' = task_queue
             /\ tasks' = tasks
             /\ delivered' = delivered
             /\ item_queue' = item_queue]_vars

\* C25 witness: the crawl is Complete after it went from Draining back to
\* Running: the seed's follow-up was enqueued into the empty queue, ran,
\* and the stream closed.
CompleteAfterReturnToRunning ==
    /\ Complete
    /\ start = "chain"
    /\ \E c \in DOMAIN tasks : c # <<>> /\ tasks[c].result = "Ok"

\* The task_sender crawl() itself holds until it returns.
CrawlSender == IF crawl_pc \in {"seed", "spawn", "return"} THEN 1 ELSE 0

\* The PendingCallbacks that are built and not yet accepted by the queue:
\* pending_start while crawl() sends it, and the pending_next of every
\* execution that is sending one.
AwaitingEnqueue ==
    (IF crawl_pc = "seed" THEN 1 ELSE 0)
    + Cardinality({c \in InFlight : tasks[c].pc = "send"})

\* The queue closes only when nothing is queued or in flight, and the
\* manager's dequeue yields end-of-stream exactly on a closed, empty queue.
ClosedOnlyWhenIdle ==
    /\ [](crawl_pc # "channels" /\ task_senders = 0
             => task_queue = <<>> /\ InFlight = {})
    /\ [](manager = "running"
          /\ Cardinality(in_progress_queue) < concurrent_requests
             => (ENABLED StreamEnd <=> task_senders = 0 /\ task_queue = <<>>))
    /\ [][manager = "running" /\ manager' # "running" => task_senders = 0]_vars

\* C26: once the channels exist, the live task-queue senders number (1
\* while crawl() has not returned) + queued + in flight and the live
\* item-stream senders number queued + in flight; the queue is never closed
\* while it is non-empty or an execution is in flight, and the manager's
\* dequeue yields end-of-stream exactly when no sender is left.
HandleCountsQueuedAndInFlight ==
    /\ [](crawl_pc # "channels" =>
            /\ task_senders
                  = CrawlSender + Len(task_queue) + Cardinality(InFlight)
            /\ item_senders = Len(task_queue) + Cardinality(InFlight))
    /\ ClosedOnlyWhenIdle

\* C26, amended: a PendingCallback built and not yet accepted by the queue
\* holds a handle of each kind too: the task-queue senders number (1 while
\* crawl() has not returned) + queued + in flight + awaiting enqueue, the
\* item-stream senders number queued + in flight + awaiting enqueue; the
\* closing part of the claim stands.
HandleCountsWithAwaiting ==
    /\ [](crawl_pc # "channels" =>
            /\ task_senders = CrawlSender + Len(task_queue)
                              + Cardinality(InFlight) + AwaitingEnqueue
            /\ item_senders = Len(task_queue) + Cardinality(InFlight)
                              + AwaitingEnqueue)
    /\ ClosedOnlyWhenIdle

\* C26 witness: crawl() has returned, a callback is queued and an execution
\* holds a follow-up it is still sending.
SenderHeldWhileSending ==
    /\ crawl_pc = "returned"
    /\ task_queue # <<>>
    /\ \E c \in InFlight : tasks[c].pc = "send"
    /\ task_senders = Len(task_queue) + Cardinality(InFlight) + 1

\* C27: a follow-up starts while its parent's execution is unfinished only
\* when a worker slot is free: every start happens with fewer than
\* concurrent_requests slots taken, and with a limit of 1 every started
\* follow-up has a parent whose execution has finished.
FollowUpOverlapsOnlyWithFreeSlot ==
    /\ [][DOMAIN tasks' # DOMAIN tasks =>
             Cardinality(in_progress_queue) < concurrent_requests]_vars
    /\ [](concurrent_requests = 1 =>
             \A c \in DOMAIN tasks :
                 c # <<>> => /\ tasks[Front(c)].pc = "done"
                             /\ Front(c) \notin in_progress_queue)

\* C27 witness: with a limit of 2 a follow-up is in flight while its parent
\* has outcomes left to route.
ParentAndFollowUpInFlight ==
    /\ concurrent_requests = 2
    /\ \E c \in InFlight :
          /\ c # <<>>
          /\ Front(c) \in InFlight
          /\ tasks[Front(c)].taken < Len(Outcomes(Front(c)))

\* C28: no enqueue meets a missing receiver: whenever an execution is
\* sending a follow-up the manager task is alive and still dequeuing, the
\* manager stops dequeuing only when every sender is dropped, and no
\* execution ever ends with a task-queue error.
NoTaskQueueError ==
    /\ [](\A c \in DOMAIN tasks :
             /\ tasks[c].result # "TaskQueue"
             /\ tasks[c].pc = "send" => manager = "running")
    /\ [](manager \in {"draining", "done"} => task_senders = 0)

\* C28 witness: crawl() has returned and an execution is sending a
\* follow-up that the queue has room for.
SendingWithManagerAlive ==
    /\ crawl_pc = "returned"
    /\ manager = "running"
    /\ Len(task_queue) < task_queue_size
    /\ \E c \in InFlight : tasks[c].pc = "send"

\* The follow-ups yielded and not yet started: queued, held by an execution
\* that is sending them, or buffered in the outcome channel of an execution.
PendingFollowUps ==
    Queued
    \cup {Append(c, tasks[c].pending) : c \in {d \in InFlight : tasks[d].pc = "send"}}
    \cup UNION {{Append(c, i) : i \in {k \in Range(tasks[c].chan) :
                                         Outcomes(c)[k].tag = "Callback"}}
                : c \in InFlight}

\* C29: each in-flight execution has at most one outcome buffered from its
\* handler, a handler can yield only when its previous outcome was taken,
\* and the follow-ups yielded but not yet started number at most the queue
\* capacity plus twice the concurrency limit.
PendingWorkBounded ==
    /\ \A c \in DOMAIN tasks :
          /\ Len(tasks[c].chan) <= 1
          /\ tasks[c].hsent <= tasks[c].taken + 1
          /\ (tasks[c].chan # <<>> /\ tasks[c].hst = "running"
              /\ tasks[c].pc # "done") => ~ENABLED Yield(c)
    /\ crawl_pc # "channels" =>
          Cardinality(PendingFollowUps)
             <= task_queue_size + 2 * concurrent_requests

\* C29 witness: the bound is met: the queue is full and every slot's
\* execution holds one follow-up it is sending and one more in its outcome
\* channel.
PendingWorkAtBound ==
    /\ crawl_pc = "returned"
    /\ Cardinality(PendingFollowUps)
          = task_queue_size + 2 * concurrent_requests

\* The order of a breadth-first walk from the seed: shorter paths first,
\* paths of one length by their first differing outcome number.
PathBefore(c, d) ==
    \/ Len(c) < Len(d)
    \/ /\ Len(c) = Len(d)
       /\ \E k \in 1..Len(c) :
             /\ c[k] < d[k]
             /\ \A m \in 1..(k - 1) : c[m] = d[m]

\* C30: with a limit of 1 executions never overlap and the items pushed on
\* the stream are in the one order fixed by the handlers' outputs: callbacks
\* breadth-first from the seed, the items of one callback together and in
\* the order yielded.
SequentialCrawlDeterministic ==
    concurrent_requests = 1 =>
        /\ Cardinality(InFlight) <= 1
        /\ item_reciever # "dropped" =>
              \A m, n \in DOMAIN Pushed :
                  m < n =>
                     \/ /\ Pushed[m][1] = Pushed[n][1]
                        /\ Pushed[m][2] < Pushed[n][2]
                     \/ PathBefore(Pushed[m][1], Pushed[n][1])
        /\ \A m, n \in DOMAIN delivered :
              m < n =>
                 \/ /\ delivered[m][1] = delivered[n][1]
                    /\ delivered[m][2] < delivered[n][2]
                 \/ PathBefore(delivered[m][1], delivered[n][1])

\* C30 witness: with a limit of 1 the items of two sibling follow-ups were
\* delivered, the first sibling's first.
SiblingsDeliveredInOrder ==
    /\ concurrent_requests = 1
    /\ start = "two"
    /\ delivered = << <<(<<1>>), 1>>, <<(<<2>>), 1>> >>

====
